---- MODULE Spec2Model ----
(***************************************************************************)
(* Parlay construction-and-scoring engine of nba_odds/parlay_generator.py. *)
(*                                                                         *)
(* A behaviour is one call of one function of the module on a pool of      *)
(* prop legs (the DataFrame).  generate_parlays runs step by step (one     *)
(* step per gathered future, one per finished size); the sequential        *)
(* functions run in one step.                                              *)
(*                                                                         *)
(* Numbers that are floats in the program are exact rationals here,        *)
(* <<numerator, denominator>> in lowest terms with a positive denominator. *)
(* Floating-point rounding is not modelled.                                *)
(***************************************************************************)
EXTENDS Integers, Sequences, FiniteSets, TLC

(***************************************************************************)
(* Bounds of the model.                                                    *)
(***************************************************************************)
\* largest number of rows of the pool
MaxPool == 3
\* largest max_legs argument
MaxLegs == 3
\* largest top_n argument
MaxTopN == 2
\* longest leg list handed directly to a validator or to the scorer
MaxCombo == 3
MaxGreedyPool == 4
MaxReportPool == 6
MaxReportList == 2
MaxKeys == 3

(***************************************************************************)
(* Rational arithmetic.                                                    *)
(***************************************************************************)
Abs(x) == IF x < 0 THEN -x ELSE x

RECURSIVE GCD(_, _)
GCD(a, b) == IF b = 0 THEN a ELSE GCD(b, a % b)

\* the rational n/d (d # 0) in lowest terms with a positive denominator
Rat(n, d) ==
    LET g == GCD(Abs(n), Abs(d))
        s == IF d < 0 THEN -1 ELSE 1
    IN  <<(s * n) \div g, (s * d) \div g>>

RInt(i) == <<i, 1>>
RMul(a, b) == Rat(a[1] * b[1], a[2] * b[2])
RAdd(a, b) == Rat(a[1] * b[2] + b[1] * a[2], a[2] * b[2])
RSub(a, b) == Rat(a[1] * b[2] - b[1] * a[2], a[2] * b[2])
\* a / b for b # 0
RDiv(a, b) == Rat(a[1] * b[2], a[2] * b[1])
RLt(a, b) == a[1] * b[2] < b[1] * a[2]
RLe(a, b) == a[1] * b[2] <= b[1] * a[2]
RGt(a, b) == RLt(b, a)
RGe(a, b) == RLe(b, a)

(***************************************************************************)
(* Program constants.                                                      *)
(***************************************************************************)
PARLAY_MIN_LEGS == 3
PARLAY_MAX_LEGS == 6
MIN_PROBABILITY == Rat(5, 100)
TOP_N_PARLAYS == 10
AMERICAN_ODDS_CAP == -500

(***************************************************************************)
(* Market keys are strings in the program.  Here a key is the sequence of  *)
(* its pieces, so that str.replace('_alternate', '') is a computation on   *)
(* the key and not a lookup: "player_points_alternate" is                  *)
(* <<"player_points", "_alternate">>.                                      *)
(***************************************************************************)
PLAYER_POINTS == <<"player_points">>
PLAYER_REBOUNDS == <<"player_rebounds">>
PLAYER_ASSISTS == <<"player_assists">>
PLAYER_POINTS_ALTERNATE == <<"player_points", "_alternate">>
PLAYER_REBOUNDS_ALTERNATE == <<"player_rebounds", "_alternate">>

\* s.replace(old, ''): every occurrence of the piece is removed
StrReplace(s, old) == SelectSeq(s, LAMBDA piece : piece # old)

(***************************************************************************)
(* Rows of the prop table (one PropLeg per row), columns as written by     *)
(* run_pipeline.merge_props_with_projections.                              *)
(***************************************************************************)
PropLeg(player, market, line, odds, prob, e) ==
    [player_name |-> player, market_key |-> market, prop_line |-> line,
     odds_decimal |-> odds, implied_prob |-> prob, edge |-> e]

\* the rows a pool is drawn from: the three legs of the documented scenario,
\* a second line and an alternate market of one of its players, a leg below
\* the American odds cap, and two legs with degenerate odds (exactly 1.0, and
\* a price under 1 whose implied probability 1/price is above 1)
PropLegRows ==
    { PropLeg("A", PLAYER_POINTS,           1, Rat(17, 10), Rat(6, 10),   Rat(3, 10)),
      PropLeg("B", PLAYER_REBOUNDS,         1, Rat(18, 10), Rat(55, 100), Rat(2, 10)),
      PropLeg("C", PLAYER_ASSISTS,          1, Rat(2, 1),   Rat(5, 10),   Rat(1, 10)),
      PropLeg("A", PLAYER_POINTS,           2, Rat(3, 1),   Rat(1, 3),    Rat(3, 1)),
      PropLeg("A", PLAYER_POINTS_ALTERNATE, 2, Rat(3, 2),   Rat(2, 3),    Rat(3, 10)),
      PropLeg("B", PLAYER_POINTS,           1, Rat(11, 10), Rat(10, 11),  Rat(2, 10)),
      PropLeg("C", PLAYER_REBOUNDS,         1, Rat(1, 1),   Rat(1, 1),    Rat(1, 10)),
      PropLeg("B", PLAYER_ASSISTS,          1, Rat(1, 2),   Rat(2, 1),    Rat(1, 10)) }

(***************************************************************************)
(* Sequence helpers.                                                       *)
(***************************************************************************)
Range(s) == { s[i] : i \in DOMAIN s }

\* sequences over S of length lo..hi
SeqsOf(S, lo, hi) == UNION { [1..n -> S] : n \in lo..hi }

\* s[:n]
Take(s, n) == IF n >= Len(s) THEN s ELSE SubSeq(s, 1, n)

(***************************************************************************)
(* is_valid_combo: the loop over the legs with its two sets and its early  *)
(* return.                                                                 *)
(***************************************************************************)
RECURSIVE IsValidFrom(_, _, _, _)
IsValidFrom(combo, i, players, markets) ==
    IF i > Len(combo) THEN TRUE
    ELSE IF combo[i].player_name \in players \/ combo[i].market_key \in markets
         THEN FALSE
         ELSE IsValidFrom(combo, i + 1,
                          players \cup {combo[i].player_name},
                          markets \cup {combo[i].market_key})

\* the validator with the market check forgotten
is_valid_combo_PlayersOnly(combo) ==
    \A i, j \in 1..Len(combo) :
        i # j => combo[i].player_name # combo[j].player_name

is_valid_combo(combo) == IsValidFrom(combo, 1, {}, {})

(***************************************************************************)
(* is_valid_no_sweat_combo: the key is (player_name, stat type).           *)
(***************************************************************************)
RECURSIVE NoSweatFrom(_, _, _)
NoSweatFrom(combo, i, player_market) ==
    IF i > Len(combo) THEN TRUE
    ELSE LET stat_type == StrReplace(combo[i].market_key, "_alternate")
             key == <<combo[i].player_name, stat_type>>
         IN  IF key \in player_market THEN FALSE
             ELSE NoSweatFrom(combo, i + 1, player_market \cup {key})

\* the promotional validator keyed on the raw market_key
is_valid_no_sweat_combo_RawKey(combo) ==
    \A i, j \in 1..Len(combo) :
        i # j => ~ (/\ combo[i].player_name = combo[j].player_name
                    /\ combo[i].market_key = combo[j].market_key)

is_valid_no_sweat_combo(combo) == NoSweatFrom(combo, 1, {})

(***************************************************************************)
(* State.                                                                  *)
(***************************************************************************)
VARIABLES
    pool,          \* the DataFrame: a sequence of rows, best edge first
    pc,            \* "idle": nothing called yet, "gen": generate_parlays is
                   \* gathering futures, "done": the call has returned
    call,          \* the function called and its arguments
    k,             \* generate_parlays: the leg count being worked on
    futures,       \* generate_parlays: the submitted combinations whose
                   \* result is not gathered yet (tuples of row positions)
    parlays,       \* generate_parlays: the results gathered for size k
    best_parlays,  \* generate_parlays: the accumulated output
    result,        \* the value the call returned
    key_rotator,   \* NBAOddsAnalyzer: None, or the APIKeyRotator [keys, index]
    api_key,       \* NBAOddsAnalyzer: the key the next attempt sends
    attempts       \* _make_request: the keys sent so far by the running call

vars == <<pool, pc, call, k, futures, parlays, best_parlays, result,
          key_rotator, api_key, attempts>>

\* the fields of the analyzer, untouched by the parlay engine
analyzer == <<key_rotator, api_key, attempts>>

\* the rows of a combination given by its positions in the pool
LegsAt(df, idx) == [n \in 1..Len(idx) |-> df[idx[n]]]

(***************************************************************************)
(* score_combo.  None is the empty sequence, a record is <<record>>.       *)
(***************************************************************************)
None == <<>>

RECURSIVE ProbLoop(_, _, _)
ProbLoop(legs, i, prob) ==
    IF i > Len(legs) THEN prob
    ELSE ProbLoop(legs, i + 1, RMul(prob, legs[i].implied_prob))

RECURSIVE EdgeLoop(_, _, _)
EdgeLoop(legs, i, e) ==
    IF i > Len(legs) THEN e
    ELSE EdgeLoop(legs, i + 1, RAdd(e, legs[i].edge))

RECURSIVE PayoutLoop(_, _, _)
PayoutLoop(legs, i, payout) ==
    IF i > Len(legs) THEN payout
    ELSE PayoutLoop(legs, i + 1, RMul(payout, legs[i].odds_decimal))

\* the record built from a non-empty leg list
ParlayRecord(legs) ==
    [legs        |-> legs,
     num_legs    |-> Len(legs),
     probability |-> ProbLoop(legs, 1, RInt(1)),
     avg_edge    |-> RDiv(EdgeLoop(legs, 1, RInt(0)), RInt(Len(legs))),
     payout      |-> PayoutLoop(legs, 1, RInt(1))]

\* score_combo with the probability floor left out
score_combo_NoFloor(combo, min_prob) == <<ParlayRecord(combo)>>

score_combo(combo, min_prob) ==
    LET p == ParlayRecord(combo)
    IN  IF RLt(p.probability, min_prob) THEN None ELSE <<p>>

(***************************************************************************)
(* generate_parlays.                                                       *)
(***************************************************************************)
\* itertools.combinations(range(n), size): the strictly increasing tuples
Combinations(n, size) ==
    { c \in [1..size -> 1..n] : \A i \in 1..(size - 1) : c[i] < c[i + 1] }

\* every combination submitted, valid or not
Submitted_Unfiltered(df, size) == Combinations(Len(df), size)

\* the combinations submitted to the executor for one size
Submitted(df, size) ==
    { c \in Combinations(Len(df), size) : is_valid_combo(LegsAt(df, c)) }

\* the sort key of line 101
BalanceKey(p) ==
    RAdd(RMul(Rat(1, 2), p.probability),
         RMul(Rat(1, 2), RDiv(RAdd(p.avg_edge, RInt(1)), RInt(2))))

\* list.sort(key=..., reverse=True): stable, descending
RECURSIVE InsertDesc(_, _)
InsertDesc(sorted, p) ==
    IF sorted = <<>> THEN <<p>>
    ELSE IF RLt(BalanceKey(sorted[Len(sorted)]), BalanceKey(p))
         THEN Append(InsertDesc(SubSeq(sorted, 1, Len(sorted) - 1), p),
                     sorted[Len(sorted)])
         ELSE Append(sorted, p)

\* the gathered list left in completion order
SortDesc_GatherOrder(s) == s

RECURSIVE SortDesc(_)
SortDesc(s) ==
    IF s = <<>> THEN <<>>
    ELSE InsertDesc(SortDesc(SubSeq(s, 1, Len(s) - 1)), s[Len(s)])

\* line 103: the escalation stop test on the sorted list
StopEscalation(sorted, min_prob) ==
    /\ sorted # <<>>
    /\ RLt(sorted[1].probability, RMul(min_prob, RInt(2)))

(***************************************************************************)
(* greedy_parlay_builder.  The DataFrame keeps its index labels through    *)
(* the filters, so df is the sequence of the positions of the rows kept.   *)
(***************************************************************************)
decimal_to_american_odds_val(decimal_odds) ==
    IF RGe(decimal_odds, RInt(2))
    THEN RMul(RSub(decimal_odds, RInt(1)), RInt(100))
    ELSE RDiv(RInt(-100), RSub(decimal_odds, RInt(1)))

\* df['odds_decimal'] > 1.01
OddsValid(leg) == RGt(leg.odds_decimal, Rat(101, 100))

\* the cap filter letting every row through
WithinCap_NoCap(leg) == TRUE

\* decimal_to_american_odds_val(x) >= AMERICAN_ODDS_CAP
WithinCap(leg) ==
    RGe(decimal_to_american_odds_val(leg.odds_decimal), RInt(AMERICAN_ODDS_CAP))

\* lines 114 and 121: the two filters, one after the other
OddsFiltered(df) ==
    LET all == [i \in 1..Len(df) |-> i]
        valid == SelectSeq(all, LAMBDA i : OddsValid(df[i]))
    IN  SelectSeq(valid, LAMBDA i : WithinCap(df[i]))

\* the pair's average edge written as a.edge + b.edge / 2
PairRecord_Precedence(a, b) ==
    [legs        |-> <<a, b>>,
     num_legs    |-> 2,
     probability |-> RMul(a.implied_prob, b.implied_prob),
     avg_edge    |-> RAdd(a.edge, RDiv(b.edge, RInt(2))),
     payout      |-> RMul(a.odds_decimal, b.odds_decimal)]

\* lines 130-144: the record of a pair
PairRecord(a, b) ==
    [legs        |-> <<a, b>>,
     num_legs    |-> 2,
     probability |-> RMul(a.implied_prob, b.implied_prob),
     avg_edge    |-> RDiv(RAdd(a.edge, b.edge), RInt(2)),
     payout      |-> RMul(a.odds_decimal, b.odds_decimal)]

\* the body of the double loop without the payout floor of lines 133-134
Best2LegStep_NoPayoutFloor(props, i, j, best) ==
    LET combo == <<props[i], props[j]>>
        cand == PairRecord(props[i], props[j])
    IN  IF ~ is_valid_combo(combo) THEN best
        ELSE IF best = None \/ RGt(cand.avg_edge, best[1].avg_edge)
             THEN <<cand>>
             ELSE best

\* the body of the double loop of lines 126-144 for props[i], props[j]:
\* best is None or <<the best pair so far>>
Best2LegStep(props, i, j, best) ==
    LET combo == <<props[i], props[j]>>
        cand == PairRecord(props[i], props[j])
    IN  IF ~ is_valid_combo(combo) THEN best
        ELSE IF RLt(cand.payout, RInt(3)) THEN best
        ELSE IF best = None \/ RGt(cand.avg_edge, best[1].avg_edge)
             THEN <<cand>>
             ELSE best

RECURSIVE Best2LegLoop(_, _, _, _)
Best2LegLoop(props, i, j, best) ==
    IF i > Len(props) THEN best
    ELSE IF j > Len(props) THEN Best2LegLoop(props, i + 1, i + 2, best)
    ELSE Best2LegLoop(props, i, j + 1, Best2LegStep(props, i, j, best))

\* lines 123-146: None, or <<the best 2-leg parlay>>
Best2Leg(df, rows) == Best2LegLoop(LegsAt(df, rows), 1, 2, None)

\* lines 171-187: the record of an assembled parlay
GreedyRecord(legs) ==
    [legs        |-> legs,
     num_legs    |-> Len(legs),
     probability |-> ProbLoop(legs, 1, RInt(1)),
     avg_edge    |-> RDiv(EdgeLoop(legs, 1, RInt(0)), RInt(Len(legs))),
     payout      |-> PayoutLoop(legs, 1, RInt(1))]

\* the rows left when rows taken by earlier parlays are not set aside
Available_IgnoreUsed(df, rows, used, parlay) ==
    LET free == SelectSeq(rows, LAMBDA i :
                    \A n \in 1..Len(parlay) :
                        ~ (/\ df[i].player_name = df[parlay[n]].player_name
                           /\ df[i].market_key = df[parlay[n]].market_key))
        valid == SelectSeq(free, LAMBDA i : OddsValid(df[i]))
    IN  SelectSeq(valid, LAMBDA i : WithinCap(df[i]))

\* the rows left when the player+market exclusion is dropped
Available_NoExclusion(df, rows, used, parlay) ==
    LET unused == SelectSeq(rows, LAMBDA i : i \notin used)
        valid == SelectSeq(unused, LAMBDA i : OddsValid(df[i]))
    IN  SelectSeq(valid, LAMBDA i : WithinCap(df[i]))

\* lines 159-165: the rows a parlay under assembly may still take
Available(df, rows, used, parlay) ==
    LET unused == SelectSeq(rows, LAMBDA i : i \notin used)
        free == SelectSeq(unused, LAMBDA i :
                    \A n \in 1..Len(parlay) :
                        ~ (/\ df[i].player_name = df[parlay[n]].player_name
                           /\ df[i].market_key = df[parlay[n]].market_key))
        valid == SelectSeq(free, LAMBDA i : OddsValid(df[i]))
    IN  SelectSeq(valid, LAMBDA i : WithinCap(df[i]))

\* lines 158-170: the inner loop, todo iterations left; gives the parlay
\* (row positions) it ends with
RECURSIVE ExtendLoop(_, _, _, _, _)
ExtendLoop(df, rows, todo, used, parlay) ==
    IF todo <= 0 THEN parlay
    ELSE LET available == Available(df, rows, used, parlay)
         IN  IF available = <<>> THEN parlay
             ELSE ExtendLoop(df, rows, todo - 1,
                             used \cup {available[1]},
                             Append(parlay, available[1]))

\* lines 148-187: the outer loop, todo iterations left
RECURSIVE AssembleLoop(_, _, _, _, _, _, _)
AssembleLoop(df, rows, min_legs, max_legs, todo, used, out) ==
    LET available == SelectSeq(rows, LAMBDA i : i \notin used)
    IN  IF todo <= 0 \/ available = <<>> THEN out
        ELSE LET first == available[1]
                 parlay == ExtendLoop(df, rows, max_legs - (min_legs - 1),
                                      used \cup {first}, <<first>>)
             IN  AssembleLoop(df, rows, min_legs, max_legs, todo - 1,
                              used \cup Range(parlay),
                              IF Len(parlay) >= min_legs
                              THEN Append(out, GreedyRecord(LegsAt(df, parlay)))
                              ELSE out)

\* the parlays the iterative assembly emits
Assembled(df, min_legs, max_legs, top_n) ==
    AssembleLoop(df, OddsFiltered(df), min_legs, max_legs, top_n, {}, <<>>)

greedy_parlay_builder(df, min_legs, max_legs, top_n) ==
    Best2Leg(df, OddsFiltered(df)) \o Assembled(df, min_legs, max_legs, top_n)

(***************************************************************************)
(* parlay_score.  A call either returns a number or raises.                *)
(***************************************************************************)
Returned(v) == [raised |-> "", value |-> v]
Raised(e) == [raised |-> e, value |-> RInt(0)]

\* the loop of lines 38-41 reads leg["odds"]: the payout of the legs, or
\* None when a leg has no such key
RECURSIVE OddsLoop(_, _, _)
OddsLoop(parlay, i, payout) ==
    IF i > Len(parlay) THEN <<payout>>
    ELSE IF "odds" \notin DOMAIN parlay[i] THEN None
    ELSE OddsLoop(parlay, i + 1, RMul(payout, parlay[i].odds))

parlay_score(parlay, mode) ==
    LET prob == ProbLoop(parlay, 1, RInt(1))
        e == EdgeLoop(parlay, 1, RInt(0))
    IN  IF OddsLoop(parlay, 1, RInt(1)) = None THEN Raised("KeyError")
        ELSE IF Len(parlay) = 0 THEN Raised("ZeroDivisionError")
        ELSE LET avg_edge == RDiv(e, RInt(Len(parlay)))
                 norm_edge == RDiv(RAdd(avg_edge, RInt(1)), RInt(2))
             IN  IF mode = "prob" THEN Returned(prob)
                 ELSE IF mode = "edge" THEN Returned(avg_edge)
                 ELSE Returned(RAdd(RMul(Rat(1, 2), prob),
                                    RMul(Rat(1, 2), norm_edge)))

(***************************************************************************)
(* expected_value_no_sweat.                                                *)
(***************************************************************************)
\* the expected value without the lost stake subtracted
expected_value_no_sweat_NoLostStake(parlay, stake, free_bet_conversion) ==
    LET win_prob == parlay.probability
        net_win == RSub(RMul(parlay.payout, stake), stake)
        lose_prob == RSub(RInt(1), win_prob)
    IN  RAdd(RMul(win_prob, net_win),
             RMul(lose_prob, RMul(stake, free_bet_conversion)))

expected_value_no_sweat(parlay, stake, free_bet_conversion) ==
    LET win_prob == parlay.probability
        payout == RMul(parlay.payout, stake)
        net_win == RSub(payout, stake)
        lose_prob == RSub(RInt(1), win_prob)
        free_bet_value == RMul(stake, free_bet_conversion)
    IN  RSub(RAdd(RMul(win_prob, net_win), RMul(lose_prob, free_bet_value)),
             RMul(lose_prob, stake))

(***************************************************************************)
(* The inputs of the calls.                                                *)
(***************************************************************************)
\* is the pool in the order run_parlay_generator hands it over (line 369)?
EdgeDescending(df) ==
    \A i \in 1..(Len(df) - 1) : RGe(df[i].edge, df[i + 1].edge)

Pools ==
    { df \in SeqsOf(PropLegRows, 0, MaxPool) :
        /\ \A i, j \in 1..Len(df) : i # j => df[i] # df[j]
        /\ EdgeDescending(df) }

MinProbs == {MIN_PROBABILITY, Rat(3, 10)}
Modes == {"balance", "prob", "edge", "probability"}
Stakes == {RInt(100), RInt(50)}
Conversions == {Rat(7, 10), Rat(1, 2)}

\* the leg lists a caller can form from the pool, rows in any order and
\* possibly repeated
LegLists(df) ==
    { LegsAt(df, idx) : idx \in SeqsOf(1..Len(df), 0, MaxCombo) }

\* the leg lists itertools.combinations forms, of every size
Combos(df) ==
    { LegsAt(df, c) : c \in UNION { Combinations(Len(df), n) : n \in 1..MaxCombo } }

\* a row in the older column layout (load_props, line 29), which has "odds"
WithOdds(leg) == [implied_prob |-> leg.implied_prob, edge |-> leg.edge,
                  odds |-> leg.odds_decimal]

NoCall == [fn |-> "none"]

Init ==
    /\ pool \in Pools
    /\ pc = "idle"
    /\ call = NoCall
    /\ k = 0
    /\ futures = {}
    /\ parlays = <<>>
    /\ best_parlays = <<>>
    /\ result = <<>>
    /\ key_rotator = <<>>
    /\ api_key = ""
    /\ attempts = <<>>

(***************************************************************************)
(* Calls of the sequential functions: one step each.                       *)
(***************************************************************************)
CallIsValidCombo ==
    /\ pc = "idle"
    /\ \E combo \in LegLists(pool) :
        /\ call' = [fn |-> "is_valid_combo", combo |-> combo]
        /\ result' = is_valid_combo(combo)
    /\ pc' = "done"
    /\ UNCHANGED <<pool, k, futures, parlays, best_parlays>>
    /\ UNCHANGED analyzer

CallIsValidNoSweatCombo ==
    /\ pc = "idle"
    /\ \E combo \in LegLists(pool) :
        /\ call' = [fn |-> "is_valid_no_sweat_combo", combo |-> combo]
        /\ result' = is_valid_no_sweat_combo(combo)
    /\ pc' = "done"
    /\ UNCHANGED <<pool, k, futures, parlays, best_parlays>>
    /\ UNCHANGED analyzer

\* mode "" stands for a call that gives no mode (the default, "balance")
CallParlayScore ==
    /\ pc = "idle"
    /\ \E combo \in Combos(pool) \cup {<<>>}, mode \in Modes \cup {""},
          old_layout \in BOOLEAN :
        LET parlay == IF old_layout
                      THEN [n \in 1..Len(combo) |-> WithOdds(combo[n])]
                      ELSE combo
        IN  /\ call' = [fn |-> "parlay_score", parlay |-> parlay, mode |-> mode]
            /\ result' = parlay_score(parlay, IF mode = "" THEN "balance" ELSE mode)
    /\ pc' = "done"
    /\ UNCHANGED <<pool, k, futures, parlays, best_parlays>>
    /\ UNCHANGED analyzer

CallExpectedValueNoSweat ==
    /\ pc = "idle"
    /\ \E combo \in Combos(pool), stake \in Stakes,
          free_bet_conversion \in Conversions :
        /\ call' = [fn |-> "expected_value_no_sweat",
                    parlay |-> ParlayRecord(combo), stake |-> stake,
                    free_bet_conversion |-> free_bet_conversion]
        /\ result' = expected_value_no_sweat(ParlayRecord(combo), stake,
                                             free_bet_conversion)
    /\ pc' = "done"
    /\ UNCHANGED <<pool, k, futures, parlays, best_parlays>>
    /\ UNCHANGED analyzer

CallScoreCombo ==
    /\ pc = "idle"
    /\ \E combo \in Combos(pool), min_prob \in MinProbs :
        /\ call' = [fn |-> "score_combo", combo |-> combo, min_prob |-> min_prob]
        /\ result' = score_combo(combo, min_prob)
    /\ pc' = "done"
    /\ UNCHANGED <<pool, k, futures, parlays, best_parlays>>
    /\ UNCHANGED analyzer

CallGreedyParlayBuilder ==
    /\ pc = "idle"
    /\ \E min_legs \in 2..MaxLegs, max_legs \in 2..MaxLegs, top_n \in 1..MaxTopN :
        /\ call' = [fn |-> "greedy_parlay_builder", min_legs |-> min_legs,
                    max_legs |-> max_legs, top_n |-> top_n]
        /\ result' = greedy_parlay_builder(pool, min_legs, max_legs, top_n)
    /\ pc' = "done"
    /\ UNCHANGED <<pool, k, futures, parlays, best_parlays>>
    /\ UNCHANGED analyzer

(***************************************************************************)
(* generate_parlays, step by step.                                         *)
(***************************************************************************)
\* the call: with an empty range of sizes it returns at once, otherwise the
\* combinations of the first size are submitted
GenStart ==
    /\ pc = "idle"
    /\ \E min_legs \in 2..MaxLegs, max_legs \in 2..MaxLegs,
          min_prob \in MinProbs, top_n \in 1..MaxTopN :
        /\ call' = [fn |-> "generate_parlays", min_legs |-> min_legs,
                    max_legs |-> max_legs, min_prob |-> min_prob,
                    top_n |-> top_n]
        /\ IF min_legs > max_legs
           THEN /\ pc' = "done"
                /\ UNCHANGED <<k, futures>>
           ELSE /\ pc' = "gen"
                /\ k' = min_legs
                /\ futures' = Submitted(pool, min_legs)
    /\ parlays' = <<>>
    /\ best_parlays' = <<>>
    /\ result' = <<>>
    /\ UNCHANGED pool
    /\ UNCHANGED analyzer

\* a gathered result put straight into the accumulated list
GenGather_ExtendsAtOnce ==
    /\ pc = "gen"
    /\ \E f \in futures :
        LET res == score_combo(LegsAt(pool, f), call.min_prob)
        IN  /\ futures' = futures \ {f}
            /\ best_parlays' = IF res # None THEN Append(best_parlays, res[1])
                                ELSE best_parlays
    /\ UNCHANGED <<pool, pc, call, k, parlays, result>>
    /\ UNCHANGED analyzer

\* lines 97-100: as_completed hands over the next finished future, whichever
\* it is; a result that is not None is appended
GenGather ==
    /\ pc = "gen"
    /\ \E f \in futures :
        LET res == score_combo(LegsAt(pool, f), call.min_prob)
        IN  /\ futures' = futures \ {f}
            /\ parlays' = IF res # None THEN Append(parlays, res[1]) ELSE parlays
    /\ UNCHANGED <<pool, pc, call, k, best_parlays, result>>
    /\ UNCHANGED analyzer

\* lines 101-104 once every future of the size is gathered: sort, keep the
\* top_n, then stop (break, or the range is exhausted) or submit the next size
GenFinishSize ==
    /\ pc = "gen"
    /\ futures = {}
    /\ LET sorted == SortDesc(parlays)
           best == best_parlays \o Take(sorted, call.top_n)
       IN  /\ best_parlays' = best
           /\ IF StopEscalation(sorted, call.min_prob) \/ k = call.max_legs
              THEN /\ pc' = "done"
                   /\ result' = best
                   /\ UNCHANGED <<k, futures, parlays>>
              ELSE /\ k' = k + 1
                   /\ futures' = Submitted(pool, k + 1)
                   /\ parlays' = <<>>
                   /\ UNCHANGED <<pc, result>>
    /\ UNCHANGED <<pool, call>>
    /\ UNCHANGED analyzer

Next ==
    \/ CallIsValidCombo
    \/ CallIsValidNoSweatCombo
    \/ CallParlayScore
    \/ CallExpectedValueNoSweat
    \/ CallScoreCombo
    \/ CallGreedyParlayBuilder
    \/ GenStart
    \/ GenGather
    \/ GenFinishSize

Spec == Init /\ [][Next]_vars

(***************************************************************************)
(* generate_parlays on pools that hold combinations of equal balance       *)
(* score.                                                                  *)
(***************************************************************************)
\* rows of which A with B/rebounds and A with B/assists score the same
\* (2 * 0.12 + 0.2 = 2 * 0.08 + 0.28) with probabilities 0.12 and 0.08; with
\* B/rebounds at line 2 the likelier pair scores a little less; with D and E
\* the triple (D, E, A) scores more than the pairs (D, A) and (E, A)
TiedRows ==
    { PropLeg("A", PLAYER_POINTS,           1, Rat(5, 1), Rat(2, 10), Rat(30, 100)),
      PropLeg("B", PLAYER_ASSISTS,          1, Rat(5, 2), Rat(4, 10), Rat(26, 100)),
      PropLeg("B", PLAYER_REBOUNDS,         1, Rat(5, 3), Rat(6, 10), Rat(10, 100)),
      PropLeg("B", PLAYER_REBOUNDS,         2, Rat(5, 3), Rat(6, 10), Rat(9, 100)),
      PropLeg("D", PLAYER_REBOUNDS_ALTERNATE, 1, Rat(10, 9), Rat(9, 10), Rat(70, 100)),
      PropLeg("E", PLAYER_ASSISTS,          2, Rat(10, 9), Rat(9, 10), Rat(65, 100)) }

PoolsGen ==
    { df \in SeqsOf(TiedRows, 0, MaxPool) :
        /\ \A i, j \in 1..Len(df) : i # j => df[i] # df[j]
        /\ EdgeDescending(df) }

InitGen ==
    /\ pool \in PoolsGen
    /\ pc = "idle"
    /\ call = NoCall
    /\ k = 0
    /\ futures = {}
    /\ parlays = <<>>
    /\ best_parlays = <<>>
    /\ result = <<>>
    /\ key_rotator = <<>>
    /\ api_key = ""
    /\ attempts = <<>>

NextGen ==
    \/ GenStart
    \/ GenGather
    \/ GenFinishSize

SpecGen == InitGen /\ [][NextGen]_vars

(***************************************************************************)
(* greedy_parlay_builder on pools large enough for several assembled       *)
(* parlays.                                                                *)
(***************************************************************************)
PoolsGreedy ==
    { df \in SeqsOf(PropLegRows, 0, MaxGreedyPool) :
        /\ \A i, j \in 1..Len(df) : i # j => df[i] # df[j]
        /\ EdgeDescending(df) }

InitGreedy ==
    /\ pool \in PoolsGreedy
    /\ pc = "idle"
    /\ call = NoCall
    /\ k = 0
    /\ futures = {}
    /\ parlays = <<>>
    /\ best_parlays = <<>>
    /\ result = <<>>
    /\ key_rotator = <<>>
    /\ api_key = ""
    /\ attempts = <<>>

NextGreedy == CallGreedyParlayBuilder

SpecGreedy == InitGreedy /\ [][NextGreedy]_vars

(***************************************************************************)
(* The ladder and the report.                                              *)
(***************************************************************************)
\* rows with several published lines for one player and market (A points at
\* 1, 2 and 3; C assists at 1 and 2, the higher one at odds_decimal 1.0)
ReportRows ==
    { PropLeg("A", PLAYER_POINTS,           1, Rat(17, 10), Rat(6, 10),  Rat(30, 100)),
      PropLeg("A", PLAYER_POINTS_ALTERNATE, 2, Rat(15, 10), Rat(2, 3),   Rat(25, 100)),
      PropLeg("B", PLAYER_REBOUNDS,         1, Rat(7, 4), Rat(55, 100), Rat(20, 100)),
      PropLeg("B", PLAYER_ASSISTS,          1, Rat(25, 10), Rat(4, 10),  Rat(15, 100)),
      PropLeg("C", PLAYER_ASSISTS,          1, Rat(2, 1),   Rat(5, 10),  Rat(10, 100)),
      PropLeg("A", PLAYER_POINTS,           2, Rat(3, 1),   Rat(1, 3),   Rat(8, 100)),
      PropLeg("A", PLAYER_POINTS,           3, Rat(4, 1),   Rat(1, 4),   Rat(6, 100)),
      PropLeg("C", PLAYER_ASSISTS,          2, Rat(1, 1),   Rat(1, 1),   Rat(5, 100)) }

\* line 369: sort_values(by='edge', ascending=False)
RECURSIVE SortByEdge(_)
SortByEdge(S) ==
    IF S = {} THEN <<>>
    ELSE LET r == CHOOSE x \in S : \A y \in S : RGe(x.edge, y.edge)
         IN  <<r>> \o SortByEdge(S \ {r})

PoolsReport ==
    { SortByEdge(S) : S \in { T \in SUBSET ReportRows : Cardinality(T) <= MaxReportPool } }

\* the row returned when the leg itself counts as a higher line
find_next_higher_leg_NotStrict(df, leg) ==
    LET candidates == { r \in Range(df) :
                          /\ r.player_name = leg.player_name
                          /\ r.market_key = leg.market_key
                          /\ r.prop_line >= leg.prop_line }
    IN  IF candidates # {}
        THEN CHOOSE r \in candidates : \A c \in candidates : r.prop_line <= c.prop_line
        ELSE leg

\* lines 212-225
find_next_higher_leg(df, leg) ==
    LET candidates == { r \in Range(df) :
                          /\ r.player_name = leg.player_name
                          /\ r.market_key = leg.market_key
                          /\ r.prop_line > leg.prop_line }
    IN  IF candidates # {}
        THEN CHOOSE r \in candidates : \A c \in candidates : r.prop_line <= c.prop_line
        ELSE leg

\* int(x) of a rational: truncation toward zero
Trunc(x) == IF x[1] >= 0 THEN x[1] \div x[2] ELSE -((-x[1]) \div x[2])

\* the text prefix + str(number), or the exception raised
AmericanText(prefix, number) == [raised |-> "", prefix |-> prefix, number |-> number]
AmericanRaised(e) == [raised |-> e, prefix |-> "", number |-> 0]

\* the conversion with the branches split at decimal_odds > 2.0
decimal_to_american_odds_StrictThreshold(decimal_odds) ==
    IF RGt(decimal_odds, RInt(2))
    THEN AmericanText("+", Trunc(RMul(RSub(decimal_odds, RInt(1)), RInt(100))))
    ELSE IF decimal_odds = RInt(1)
         THEN AmericanRaised("ZeroDivisionError")
         ELSE AmericanText("-", Trunc(RDiv(RInt(100), RSub(decimal_odds, RInt(1)))))

\* lines 205-209: the division by decimal_odds - 1 raises at 1.0
decimal_to_american_odds(decimal_odds) ==
    IF RGe(decimal_odds, RInt(2))
    THEN AmericanText("+", Trunc(RMul(RSub(decimal_odds, RInt(1)), RInt(100))))
    ELSE IF decimal_odds = RInt(1)
         THEN AmericanRaised("ZeroDivisionError")
         ELSE AmericanText("-", Trunc(RDiv(RInt(100), RSub(decimal_odds, RInt(1)))))

\* line 257: sorted(parlays, key=probability, reverse=True), stable
RECURSIVE InsertByProbability(_, _)
InsertByProbability(sorted, p) ==
    IF sorted = <<>> THEN <<p>>
    ELSE IF RLt(sorted[Len(sorted)].probability, p.probability)
         THEN Append(InsertByProbability(SubSeq(sorted, 1, Len(sorted) - 1), p),
                     sorted[Len(sorted)])
         ELSE Append(sorted, p)

RECURSIVE SortedByProbability(_)
SortedByProbability(s) ==
    IF s = <<>> THEN <<>>
    ELSE InsertByProbability(SortedByProbability(SubSeq(s, 1, Len(s) - 1)), s[Len(s)])

\* the legs of a set in the order its iteration gives them; the sums and
\* products below do not depend on it
RECURSIVE SeqOfSet(_)
SeqOfSet(S) ==
    IF S = {} THEN <<>>
    ELSE LET x == CHOOSE y \in S : TRUE
         IN  <<x>> \o SeqOfSet(S \ {x})

\* lines 276-278: the substituted legs, equal ones collapsed
LadderLegs(df, p) ==
    SeqOfSet({ find_next_higher_leg(df, p.legs[n]) : n \in 1..Len(p.legs) })

\* lines 279-287: the record of the ladder variant
LadderRecord(ladder_legs) ==
    [legs        |-> ladder_legs,
     num_legs    |-> Len(ladder_legs),
     probability |-> ProbLoop(ladder_legs, 1, RInt(1)),
     avg_edge    |-> RDiv(EdgeLoop(ladder_legs, 1, RInt(0)), RInt(Len(ladder_legs))),
     payout      |-> PayoutLoop(ladder_legs, 1, RInt(1))]

\* a section of the report: its kind and None ("No qualifying parlay
\* found.") or <<the parlay written>>
Section(kind, pick) == [kind |-> kind, pick |-> pick]

\* lines 264-296: the sections of the 5-leg parlays from position i on
RECURSIVE Top5Sections(_, _, _)
Top5Sections(df, top_5leg, i) ==
    IF i > Len(top_5leg) THEN <<>>
    ELSE LET p == top_5leg[i]
             ladder_legs == LadderLegs(df, p)
         IN  <<Section("top_5leg", <<p>>)>>
             \o (IF Len(ladder_legs) = Len(p.legs)
                 THEN <<Section("ladder", <<LadderRecord(ladder_legs)>>)>>
                 ELSE <<>>)
             \o Top5Sections(df, top_5leg, i + 1)

\* max(cands, key=payout): the first parlay of greatest payout
RECURSIVE MaxPayoutLoop(_, _, _)
MaxPayoutLoop(cands, i, best) ==
    IF i > Len(cands) THEN best
    ELSE MaxPayoutLoop(cands, i + 1,
                       IF RGt(cands[i].payout, best.payout) THEN cands[i] ELSE best)

\* lines 298-340: one of the three 2-leg sections
TwoLegSection(kind, cands) ==
    IF cands # <<>>
    THEN Section(kind, <<MaxPayoutLoop(cands, 2, cands[1])>>)
    ELSE Section(kind, None)

\* lines 342-349: best is None or <<parlay, its expected value>>
RECURSIVE NoSweatLoop(_, _, _)
NoSweatLoop(sorted, i, best) ==
    IF i > Len(sorted) THEN best
    ELSE LET p == sorted[i]
             ev == expected_value_no_sweat(p, RInt(100), Rat(7, 10))
         IN  NoSweatLoop(sorted, i + 1,
                 IF /\ is_valid_no_sweat_combo(p.legs)
                    /\ (best = None \/ RGt(ev, best[2]))
                 THEN <<p, ev>>
                 ELSE best)

\* lines 350-360: the section is left out when there is no pick
NoSweatSection(sorted) ==
    LET best == NoSweatLoop(sorted, 1, None)
    IN  IF best = None THEN <<>> ELSE <<Section("no_sweat", <<best[1]>>)>>

\* the sections in the order they are written, were none to raise
Sections(parlay_list, df) ==
    LET sorted == SortedByProbability(parlay_list)
        top_5leg == Take(SelectSeq(sorted, LAMBDA p : p.num_legs = 5), 3)
        two_leg == SelectSeq(sorted, LAMBDA p : p.num_legs = 2)
        two_leg_10 == SelectSeq(two_leg, LAMBDA p : RGt(p.probability, Rat(10, 100)))
        two_leg_20 == SelectSeq(two_leg, LAMBDA p : RGe(p.probability, Rat(20, 100)))
    IN  Top5Sections(df, top_5leg, 1)
        \o <<TwoLegSection("best_2leg", two_leg),
             TwoLegSection("best_2leg_10", two_leg_10),
             TwoLegSection("best_2leg_20", two_leg_20)>>
        \o NoSweatSection(sorted)

\* writing a parlay converts its payout and the odds of each leg
WriteRaises(section) ==
    /\ section.pick # None
    /\ \/ decimal_to_american_odds(section.pick[1].payout).raised # ""
       \/ \E n \in 1..Len(section.pick[1].legs) :
              decimal_to_american_odds(section.pick[1].legs[n].odds_decimal).raised # ""

\* lines 256-360: the sections written in full, and the exception that ended
\* the writing if one did (the section it interrupted stays incomplete in the
\* file and is not listed)
save_parlays_markdown(parlay_list, df) ==
    LET all == Sections(parlay_list, df)
        bad == { n \in 1..Len(all) : WriteRaises(all[n]) }
    IN  IF bad = {}
        THEN [raised |-> "", parlays |-> parlay_list, sections |-> all]
        ELSE LET first == CHOOSE n \in bad : \A m \in bad : n <= m
             IN  [raised   |-> "ZeroDivisionError",
                  parlays  |-> parlay_list,
                  sections |-> SubSeq(all, 1, first - 1)]

\* lines 380-396: the body of the fallback scan for props[i], props[j]
FallbackStep(props, i, j, best) ==
    LET combo == <<props[i], props[j]>>
        cand == PairRecord(props[i], props[j])
    IN  IF ~ is_valid_combo(combo) THEN best
        ELSE IF best = None \/ RGt(cand.avg_edge, best[1].avg_edge)
             THEN <<cand>>
             ELSE best

RECURSIVE FallbackLoop(_, _, _, _)
FallbackLoop(props, i, j, best) ==
    IF i > Len(props) THEN best
    ELSE IF j > Len(props) THEN FallbackLoop(props, i + 1, i + 2, best)
    ELSE FallbackLoop(props, i, j + 1, FallbackStep(props, i, j, best))

\* lines 371-398: the greedy builder's parlays and, when none of them has two
\* legs, the best pair of the whole pool
RunParlays(df) ==
    LET greedy == greedy_parlay_builder(df, 2, 5, 30)
        two_leg_parlays == SelectSeq(greedy, LAMBDA p : p.num_legs = 2)
    IN  IF two_leg_parlays = <<>>
        THEN greedy \o FallbackLoop(df, 1, 2, None)
        ELSE greedy

\* lines 363-404, the pool already loaded, filtered and sorted
run_parlay_generator(df) == save_parlays_markdown(RunParlays(df), df)

CallRunParlayGenerator ==
    /\ pc = "idle"
    /\ call' = [fn |-> "run_parlay_generator"]
    /\ result' = run_parlay_generator(pool)
    /\ pc' = "done"
    /\ UNCHANGED <<pool, k, futures, parlays, best_parlays>>
    /\ UNCHANGED analyzer

\* runs of size consecutive rows of a pool of n rows
Windows(n, size) ==
    { c \in Combinations(n, size) : \A i \in 1..(size - 1) : c[i + 1] = c[i] + 1 }

\* parlays a caller may hand to the reporter: any two rows of the pool, and
\* five consecutive rows (legs of one player and market at two lines are
\* what lines 277-279 provide for)
ReportCandidates(df) ==
    { GreedyRecord(LegsAt(df, c)) :
        c \in Combinations(Len(df), 2) \cup Windows(Len(df), 5) }

\* the lists of up to MaxReportList different parlays
ReportLists(df) ==
    { SeqOfSet(S) : S \in { T \in SUBSET ReportCandidates(df) :
                               Cardinality(T) <= MaxReportList } }

CallSaveParlaysMarkdown ==
    /\ pc = "idle"
    /\ \E parlay_list \in ReportLists(pool) :
        /\ call' = [fn |-> "save_parlays_markdown"]
        /\ result' = save_parlays_markdown(parlay_list, pool)
    /\ pc' = "done"
    /\ UNCHANGED <<pool, k, futures, parlays, best_parlays>>
    /\ UNCHANGED analyzer

\* the decimal odds the reporter converts: the odds of a leg and the payout
\* of a parlay
Converted(df) ==
    { df[n].odds_decimal : n \in 1..Len(df) }
    \cup { RunParlays(df)[n].payout : n \in 1..Len(RunParlays(df)) }

CallDecimalToAmericanOdds ==
    /\ pc = "idle"
    /\ \E decimal_odds \in Converted(pool) :
        /\ call' = [fn |-> "decimal_to_american_odds", decimal_odds |-> decimal_odds]
        /\ result' = decimal_to_american_odds(decimal_odds)
    /\ pc' = "done"
    /\ UNCHANGED <<pool, k, futures, parlays, best_parlays>>
    /\ UNCHANGED analyzer

CallFindNextHigherLeg ==
    /\ pc = "idle"
    /\ \E n \in 1..Len(pool) :
        /\ call' = [fn |-> "find_next_higher_leg", leg |-> pool[n]]
        /\ result' = find_next_higher_leg(pool, pool[n])
    /\ pc' = "done"
    /\ UNCHANGED <<pool, k, futures, parlays, best_parlays>>
    /\ UNCHANGED analyzer

InitReport ==
    /\ pool \in PoolsReport
    /\ pc = "idle"
    /\ call = NoCall
    /\ k = 0
    /\ futures = {}
    /\ parlays = <<>>
    /\ best_parlays = <<>>
    /\ result = <<>>
    /\ key_rotator = <<>>
    /\ api_key = ""
    /\ attempts = <<>>

NextReport ==
    \/ CallFindNextHigherLeg
    \/ CallRunParlayGenerator
    \/ CallSaveParlaysMarkdown
    \/ CallDecimalToAmericanOdds

SpecReport == InitReport /\ [][NextReport]_vars

(***************************************************************************)
(* NBAOddsAnalyzer: the choice of the API key and its rotation.            *)
(***************************************************************************)
\* the non-blank lines a key file may hold
KeyNames == <<"k1", "k2", "k3", "k4">>
KeyFiles == { SubSeq(KeyNames, 1, n) : n \in 0..MaxKeys }

\* the api_key argument and os.getenv('ODDS_API_KEY'): None, or <<a string>>,
\* the empty string included
ApiKeyArgs == {<<>>, <<"">>, <<"arg">>}
EnvValues == {<<>>, <<"">>, <<"env">>, <<"k1">>}

\* analyzer.py lines 13-14
get(rotator) == rotator.keys[rotator.index + 1]

\* analyzer.py lines 15-17: the rotator after rotate(); its get() is returned
rotate(rotator) ==
    [rotator EXCEPT !.index = (rotator.index + 1) % Len(rotator.keys)]

\* Python's truth value of an optional string
Truthy(opt) == opt # <<>> /\ opt[1] # ""

\* the key chosen when an argument that is given is taken as it is
InitialKey_ArgAsGiven(arg, env, rotator) ==
    IF arg # <<>> THEN arg
    ELSE IF Truthy(env) THEN env
    ELSE IF rotator.keys = <<>> THEN <<>>
    ELSE <<get(rotator)>>

\* analyzer.py line 87: api_key or os.getenv(...) or key_rotator.get();
\* None when get() raises IndexError on a key file without keys
InitialKey(arg, env, rotator) ==
    IF Truthy(arg) THEN arg
    ELSE IF Truthy(env) THEN env
    ELSE IF rotator.keys = <<>> THEN <<>>
    ELSE <<get(rotator)>>

\* analyzer.py lines 84-95
Construct ==
    /\ pc = "idle"
    /\ \E key_file \in KeyFiles, arg \in ApiKeyArgs, env \in EnvValues :
        LET rotator == [keys |-> key_file, index |-> 0]
            chosen == InitialKey(arg, env, rotator)
        IN  /\ call' = [fn |-> "__init__", api_key |-> arg, env |-> env,
                        key_file |-> key_file]
            /\ IF chosen = <<>>
               THEN /\ result' = [raised |-> "IndexError"]
                    /\ pc' = "done"
                    /\ UNCHANGED <<key_rotator, api_key>>
               ELSE /\ result' = [raised |-> ""]
                    /\ pc' = "ready"
                    /\ key_rotator' = rotator
                    /\ api_key' = chosen[1]
    /\ UNCHANGED <<pool, k, futures, parlays, best_parlays, attempts>>

\* analyzer.py lines 97-98: a call of _make_request begins
MakeRequest ==
    /\ pc = "ready"
    /\ pc' = "request"
    /\ call' = [fn |-> "_make_request"]
    /\ attempts' = <<>>
    /\ result' = <<>>
    /\ UNCHANGED <<pool, k, futures, parlays, best_parlays, key_rotator, api_key>>

\* the loop of line 99 has iterations left
InLoop == pc = "request" /\ Len(attempts) < Len(key_rotator.keys)

\* lines 100-108: the attempt succeeds and the JSON body is returned
AttemptSucceeds ==
    /\ InLoop
    /\ attempts' = Append(attempts, api_key)
    /\ result' = [outcome |-> "json"]
    /\ pc' = "ready"
    /\ UNCHANGED <<pool, call, k, futures, parlays, best_parlays, key_rotator, api_key>>

\* lines 109-113: 401 with OUT_OF_USAGE_CREDITS, the key is rotated and the
\* loop goes on
AttemptOutOfCredits ==
    /\ InLoop
    /\ attempts' = Append(attempts, api_key)
    /\ key_rotator' = rotate(key_rotator)
    /\ api_key' = get(rotate(key_rotator))
    /\ UNCHANGED <<pool, pc, call, k, futures, parlays, best_parlays, result>>

\* lines 114-122: any other HTTP error or request exception returns None
AttemptFails ==
    /\ InLoop
    /\ attempts' = Append(attempts, api_key)
    /\ result' = [outcome |-> "error"]
    /\ pc' = "ready"
    /\ UNCHANGED <<pool, call, k, futures, parlays, best_parlays, key_rotator, api_key>>

\* lines 123-124: the loop ran out, "All API keys exhausted or invalid."
KeysExhausted ==
    /\ pc = "request"
    /\ Len(attempts) >= Len(key_rotator.keys)
    /\ result' = [outcome |-> "exhausted"]
    /\ pc' = "ready"
    /\ UNCHANGED <<pool, call, k, futures, parlays, best_parlays, key_rotator,
                   api_key, attempts>>

InitKeys ==
    /\ pool = <<>>
    /\ pc = "idle"
    /\ call = NoCall
    /\ k = 0
    /\ futures = {}
    /\ parlays = <<>>
    /\ best_parlays = <<>>
    /\ result = <<>>
    /\ key_rotator = <<>>
    /\ api_key = ""
    /\ attempts = <<>>

NextKeys ==
    \/ Construct
    \/ MakeRequest
    \/ AttemptSucceeds
    \/ AttemptOutOfCredits
    \/ AttemptFails
    \/ KeysExhausted

SpecKeys == InitKeys /\ [][NextKeys]_vars

(***************************************************************************)
(* Properties.                                                             *)
(***************************************************************************)
Returns(fn) == pc = "done" /\ call.fn = fn

\* the legs have pairwise distinct players and pairwise distinct markets
DistinctPlayersAndMarkets(legs) ==
    \A i, j \in 1..Len(legs) :
        i # j => /\ legs[i].player_name # legs[j].player_name
                 /\ legs[i].market_key # legs[j].market_key

\* no two legs have the same player and the same market
NoSamePlayerMarket(legs) ==
    \A i, j \in 1..Len(legs) :
        i # j => ~ (/\ legs[i].player_name = legs[j].player_name
                    /\ legs[i].market_key = legs[j].market_key)

\* the parlays a finished call of either search strategy returned
Returned_Parlays ==
    IF Returns("generate_parlays") \/ Returns("greedy_parlay_builder")
    THEN Range(result) ELSE {}

\* C1: is_valid_combo returns true exactly when the players of the legs are
\* pairwise distinct and the markets of the legs are pairwise distinct.
C1_ValidIffDistinct ==
    Returns("is_valid_combo") =>
        (result <=> DistinctPlayersAndMarkets(call.combo))

\* is_valid_combo rejected legs of different players that share a market
C1_Witness ==
    /\ Returns("is_valid_combo")
    /\ Len(call.combo) >= 2
    /\ \A i, j \in 1..Len(call.combo) :
          i # j => call.combo[i].player_name # call.combo[j].player_name
    /\ result = FALSE

\* C2: is_valid_no_sweat_combo returns true exactly when no two legs share
\* the player and the stat type (the market key without "_alternate"); a
\* standard market with its alternate on one player is rejected, one player
\* in two different statistics is accepted.
C2_NoSweatIffDistinctStat ==
    Returns("is_valid_no_sweat_combo") =>
        LET legs == call.combo
            stat(i) == StrReplace(legs[i].market_key, "_alternate")
        IN  /\ result <=>
                  \A i, j \in 1..Len(legs) :
                      i # j => ~ (/\ legs[i].player_name = legs[j].player_name
                                  /\ stat(i) = stat(j))
            /\ (\E i, j \in 1..Len(legs) :
                   /\ legs[i].player_name = legs[j].player_name
                   /\ legs[i].market_key = PLAYER_POINTS
                   /\ legs[j].market_key = PLAYER_POINTS_ALTERNATE)
               => result = FALSE
            /\ (/\ Len(legs) = 2
                /\ legs[1].player_name = legs[2].player_name
                /\ {legs[1].market_key, legs[2].market_key}
                       \in {{PLAYER_POINTS, PLAYER_REBOUNDS},
                            {PLAYER_POINTS, PLAYER_ASSISTS},
                            {PLAYER_REBOUNDS, PLAYER_ASSISTS}})
               => result = TRUE

\* a standard market and its alternate on one player were rejected
C2_Witness ==
    /\ Returns("is_valid_no_sweat_combo")
    /\ Len(call.combo) = 2
    /\ call.combo[1].player_name = call.combo[2].player_name
    /\ call.combo[1].market_key = PLAYER_POINTS
    /\ call.combo[2].market_key = PLAYER_POINTS_ALTERNATE
    /\ result = FALSE

\* C3: in every parlay returned by generate_parlays or greedy_parlay_builder
\* no two legs share both the player and the market.
C3_NoSamePlayerMarket ==
    \A p \in Returned_Parlays : NoSamePlayerMarket(p.legs)

\* the greedy builder returned a parlay of several legs from a pool that
\* holds two lines of one player and market
C3_Witness ==
    /\ Returns("greedy_parlay_builder")
    /\ \E i, j \in 1..Len(pool) :
          /\ i # j
          /\ pool[i].player_name = pool[j].player_name
          /\ pool[i].market_key = pool[j].market_key
          /\ OddsValid(pool[i]) /\ OddsValid(pool[j])
          /\ \E n \in 1..Len(result) :
                /\ result[n].num_legs >= 2
                /\ result[n].legs[1] = pool[i]

\* C4 as claimed: every parlay of either search strategy passes the standard
\* validator (each player at most once, each market at most once).
C4_AllPassValidator ==
    \A p \in Returned_Parlays : DistinctPlayersAndMarkets(p.legs)

\* the number of guaranteed pairs at the head of the greedy builder's output
GuaranteedPairs == Len(Best2Leg(pool, OddsFiltered(pool)))

\* C4 as amended: the parlays of the exhaustive search and the guaranteed
\* pair of the greedy builder pass the standard validator; an assembled
\* parlay of the greedy builder only has no two legs with the same player
\* and the same market.
C4_ValidatorExceptAssembled ==
    /\ Returns("generate_parlays") =>
          \A p \in Range(result) : DistinctPlayersAndMarkets(p.legs)
    /\ Returns("greedy_parlay_builder") =>
          \A n \in 1..Len(result) :
              IF n <= GuaranteedPairs
              THEN DistinctPlayersAndMarkets(result[n].legs)
              ELSE NoSamePlayerMarket(result[n].legs)

\* the greedy builder assembled a parlay with one player in two markets
C4_Witness ==
    /\ Returns("greedy_parlay_builder")
    /\ \E n \in 1..Len(result) :
          /\ n > GuaranteedPairs
          /\ \E i, j \in 1..Len(result[n].legs) :
                /\ i # j
                /\ result[n].legs[i].player_name = result[n].legs[j].player_name

\* product and sum of a sequence of rationals
RECURSIVE Product(_)
Product(s) == IF s = <<>> THEN RInt(1) ELSE RMul(s[1], Product(Tail(s)))

RECURSIVE Sum(_)
Sum(s) == IF s = <<>> THEN RInt(0) ELSE RAdd(s[1], Sum(Tail(s)))

ProbsOf(legs) == [i \in 1..Len(legs) |-> legs[i].implied_prob]
EdgesOf(legs) == [i \in 1..Len(legs) |-> legs[i].edge]
OddsOf(legs) == [i \in 1..Len(legs) |-> legs[i].odds_decimal]

\* the derived fields of a parlay record are the aggregates of its legs
DerivedFieldsRight(p) ==
    /\ p.num_legs = Len(p.legs)
    /\ p.probability = Product(ProbsOf(p.legs))
    /\ p.payout = Product(OddsOf(p.legs))
    /\ p.avg_edge = RDiv(Sum(EdgesOf(p.legs)), RInt(Len(p.legs)))

\* the legs of the documented scenario
IsScenario(legs) ==
    /\ ProbsOf(legs) = <<Rat(6, 10), Rat(55, 100), Rat(5, 10)>>
    /\ EdgesOf(legs) = <<Rat(3, 10), Rat(2, 10), Rat(1, 10)>>
    /\ OddsOf(legs) = <<Rat(17, 10), Rat(18, 10), Rat(2, 1)>>

ScenarioValues(p) ==
    /\ p.probability = Rat(165, 1000)
    /\ p.avg_edge = Rat(2, 10)
    /\ p.payout = Rat(612, 100)

\* every parlay record in the state: returned by score_combo or by the
\* greedy builder, or gathered or accumulated by generate_parlays
Emitted_Records ==
    (IF Returns("score_combo") \/ Returns("greedy_parlay_builder")
     THEN Range(result) ELSE {})
    \cup Range(parlays) \cup Range(best_parlays)

\* C5: every parlay record emitted by score_combo, by the guaranteed-pair
\* pass and by the iterative assembly has num_legs = number of legs,
\* probability = product of implied_prob, payout = product of odds_decimal
\* and avg_edge = sum of edge / number of legs; the scenario legs give
\* 0.165, 0.2 and 6.12.
C5_DerivedFields ==
    \A p \in Emitted_Records :
        /\ DerivedFieldsRight(p)
        /\ IsScenario(p.legs) => ScenarioValues(p)

\* the greedy builder returned a guaranteed pair and assembled the three
\* scenario legs into a parlay with the documented values
C5_Witness ==
    /\ Returns("greedy_parlay_builder")
    /\ GuaranteedPairs = 1
    /\ \E n \in 2..Len(result) :
          /\ IsScenario(result[n].legs)
          /\ result[n].num_legs = 3
          /\ ScenarioValues(result[n])

\* C6 as claimed: every parlay returned by generate_parlays or
\* greedy_parlay_builder has 0 <= probability <= 1 and payout >= 1.
C6_ProbabilityAndPayoutRange ==
    \A p \in Returned_Parlays :
        /\ RLe(RInt(0), p.probability)
        /\ RLe(p.probability, RInt(1))
        /\ RGe(p.payout, RInt(1))

\* the balance blend 0.5 * probability + 0.5 * ((avg_edge + 1) / 2)
Blend(probability, avg_edge) ==
    RDiv(RAdd(RMul(RInt(2), probability), RAdd(avg_edge, RInt(1))), RInt(4))

\* aggregate probability and average edge of the legs handed to the scorer
ScoredProbability == Product(ProbsOf(call.parlay))
ScoredAvgEdge == RDiv(Sum(EdgesOf(call.parlay)), RInt(Len(call.parlay)))

\* C7 as claimed: in balance mode (also when no mode is given) the score of
\* a parlay is 0.5 * probability + 0.5 * ((avg_edge + 1) / 2), unclamped.
C7_BalanceScore ==
    (/\ Returns("parlay_score")
     /\ call.mode \in {"", "balance"}
     /\ Len(call.parlay) > 0)
    => result = Returned(Blend(ScoredProbability, ScoredAvgEdge))

\* C8 as claimed: mode `probability` returns the aggregate probability and
\* mode `edge` the average edge.
C8_ProbabilityAndEdgeModes ==
    (Returns("parlay_score") /\ Len(call.parlay) > 0) =>
        /\ call.mode = "probability" => result = Returned(ScoredProbability)
        /\ call.mode = "edge" => result = Returned(ScoredAvgEdge)

\* C9: the promotional expected value is
\* p * (payout*stake - stake) + (1-p) * (stake*conversion) - (1-p) * stake;
\* stake 100, conversion 0.7, p = 0.165, payout = 6.12 give 59.43.
C9_ExpectedValue ==
    Returns("expected_value_no_sweat") =>
        LET prob == call.parlay.probability
            payout == call.parlay.payout
            stake == call.stake
            conv == call.free_bet_conversion
            lose == RSub(RInt(1), prob)
        IN  /\ result =
                 RSub(RAdd(RMul(prob, RSub(RMul(payout, stake), stake)),
                           RMul(lose, RMul(stake, conv))),
                      RMul(lose, stake))
            /\ (/\ prob = Rat(165, 1000) /\ payout = Rat(612, 100)
                /\ stake = RInt(100) /\ conv = Rat(7, 10))
               => result = Rat(5943, 100)

\* the documented scenario was evaluated
C9_Witness ==
    /\ Returns("expected_value_no_sweat")
    /\ call.parlay.probability = Rat(165, 1000)
    /\ call.parlay.payout = Rat(612, 100)
    /\ call.stake = RInt(100)
    /\ call.free_bet_conversion = Rat(7, 10)
    /\ result = Rat(5943, 100)

\* the sizes generate_parlays has finished
FinishedSizes ==
    IF call.fn # "generate_parlays" THEN {}
    ELSE IF pc = "gen" THEN call.min_legs..(k - 1)
    ELSE call.min_legs..k

\* all combinations of the pool of one size
AllCombos(size) ==
    { LegsAt(pool, c) : c \in Combinations(Len(pool), size) }

\* the combinations of one size that are valid and reach the floor
Candidates(size) ==
    { legs \in AllCombos(size) :
        /\ DistinctPlayersAndMarkets(legs)
        /\ RGe(Product(ProbsOf(legs)), call.min_prob) }

\* what generate_parlays contributed for one size
Contribution(size) == SelectSeq(best_parlays, LAMBDA p : p.num_legs = size)

Score(p) == Blend(p.probability, p.avg_edge)

Min(a, b) == IF a < b THEN a ELSE b

\* C10: for each size generate_parlays attempted, its contribution is the
\* top_n (or all, when fewer) highest balance-score parlays, in descending
\* score order, among the valid combinations of that size whose probability
\* is not below min_prob; no parlay below min_prob is in the output.
C10_TopNPerSize ==
    /\ \A size \in FinishedSizes :
          LET contrib == Contribution(size)
              chosen == { contrib[i].legs : i \in 1..Len(contrib) }
          IN  /\ Len(contrib) = Min(call.top_n, Cardinality(Candidates(size)))
              /\ Cardinality(chosen) = Len(contrib)
              /\ chosen \subseteq Candidates(size)
              /\ \A i \in 1..Len(contrib) : DerivedFieldsRight(contrib[i])
              /\ \A i \in 1..(Len(contrib) - 1) :
                    RGe(Score(contrib[i]), Score(contrib[i + 1]))
              /\ \A i \in 1..Len(contrib) :
                    \A legs \in Candidates(size) \ chosen :
                        RGe(Score(contrib[i]),
                            Blend(Product(ProbsOf(legs)),
                                  RDiv(Sum(EdgesOf(legs)), RInt(Len(legs)))))
    /\ call.fn = "generate_parlays" =>
          \A p \in Range(best_parlays) : RGe(p.probability, call.min_prob)

\* generate_parlays returned after a size at which a valid combination was
\* discarded for its probability and more than top_n candidates remained
C10_Witness ==
    /\ Returns("generate_parlays")
    /\ \E size \in FinishedSizes :
          /\ Cardinality(Candidates(size)) > call.top_n
          /\ \E legs \in AllCombos(size) :
                /\ DistinctPlayersAndMarkets(legs)
                /\ legs \notin Candidates(size)

(***************************************************************************)
(* Completion order of the futures.                                        *)
(***************************************************************************)
\* c comes before d in the order itertools.combinations yields them
LexLess(c, d) ==
    \E i \in 1..Len(c) :
        /\ c[i] < d[i]
        /\ \A j \in 1..(i - 1) : c[j] = d[j]

\* the results gathered when the futures of the set complete in the order
\* they were submitted
RECURSIVE GatherInOrder(_, _)
GatherInOrder(pending, min_prob) ==
    IF pending = {} THEN <<>>
    ELSE LET f == CHOOSE c \in pending : \A d \in pending \ {c} : LexLess(c, d)
             res == score_combo(LegsAt(pool, f), min_prob)
         IN  res \o GatherInOrder(pending \ {f}, min_prob)

\* the run of generate_parlays in which every size is gathered in submission
\* order: the output and the last size attempted
RECURSIVE InOrderRun(_, _)
InOrderRun(size, best) ==
    LET sorted == SortDesc(GatherInOrder(Submitted(pool, size), call.min_prob))
        out == best \o Take(sorted, call.top_n)
    IN  IF StopEscalation(sorted, call.min_prob) \/ size = call.max_legs
        THEN [output |-> out, last |-> size]
        ELSE InOrderRun(size + 1, out)

\* C11 as claimed: for a fixed pool and fixed arguments generate_parlays
\* returns the same set of parlays, and attempts the same sizes, for every
\* completion order of the futures (here: the same as in the run that
\* gathers in submission order).
C11_CompletionOrderIndependent ==
    (Returns("generate_parlays") /\ call.min_legs <= call.max_legs) =>
        LET ref == InOrderRun(call.min_legs, <<>>)
        IN  /\ Range(result) = Range(ref.output)
            /\ k = ref.last

(***************************************************************************)
(* The greedy builder: reuse of legs, and the guaranteed pair.             *)
(***************************************************************************)
\* C12: no pool row is a leg of two different iteratively assembled parlays
\* of one run of greedy_parlay_builder (the guaranteed pair, which comes
\* first in the output, is exempt).
C12_AssembledDisjoint ==
    Returns("greedy_parlay_builder") =>
        \A m, n \in (GuaranteedPairs + 1)..Len(result) :
            m # n => Range(result[m].legs) \cap Range(result[n].legs) = {}

\* two assembled parlays were emitted, and the guaranteed pair shares a leg
\* with one of them
C12_Witness ==
    /\ Returns("greedy_parlay_builder")
    /\ GuaranteedPairs = 1
    /\ Len(result) >= 3
    /\ \E n \in 2..Len(result) :
        Range(result[1].legs) \cap Range(result[n].legs) # {}

\* the pairs of the odds-filtered pool that pass is_valid_combo and pay at
\* least 3.0
QualifyingPairs ==
    LET rows == OddsFiltered(pool)
    IN  { c \in Range(rows) \X Range(rows) :
            /\ c[1] < c[2]
            /\ DistinctPlayersAndMarkets(<<pool[c[1]], pool[c[2]]>>)
            /\ RGe(RMul(pool[c[1]].odds_decimal, pool[c[2]].odds_decimal), RInt(3)) }

PairAvgEdge(c) == RDiv(RAdd(pool[c[1]].edge, pool[c[2]].edge), RInt(2))

\* C13: the guaranteed pass of greedy_parlay_builder puts first in the
\* output, as a 2-leg parlay, a pair of maximum average edge among the pairs
\* of the odds-filtered pool that pass is_valid_combo and have payout >= 3.0;
\* when there is no such pair the output holds the assembled parlays only.
C13_GuaranteedPair ==
    Returns("greedy_parlay_builder") =>
        LET assembled == Assembled(pool, call.min_legs, call.max_legs, call.top_n)
        IN  IF QualifyingPairs = {}
            THEN result = assembled
            ELSE /\ Len(result) = Len(assembled) + 1
                 /\ \A n \in 1..Len(assembled) : result[n + 1] = assembled[n]
                 /\ result[1].num_legs = 2
                 /\ \E c \in QualifyingPairs :
                        /\ result[1].legs = <<pool[c[1]], pool[c[2]]>>
                        /\ result[1].avg_edge = PairAvgEdge(c)
                        /\ \A d \in QualifyingPairs :
                               RGe(PairAvgEdge(c), PairAvgEdge(d))

\* a pair was added although a valid pair paying less than 3.0 has a higher
\* average edge
C13_Witness ==
    /\ Returns("greedy_parlay_builder")
    /\ QualifyingPairs # {}
    /\ LET rows == OddsFiltered(pool)
       IN  \E i, j \in Range(rows) :
               /\ i < j
               /\ DistinctPlayersAndMarkets(<<pool[i], pool[j]>>)
               /\ RLt(RMul(pool[i].odds_decimal, pool[j].odds_decimal), RInt(3))
               /\ RGt(PairAvgEdge(<<i, j>>), result[1].avg_edge)

(***************************************************************************)
(* Degenerate odds.                                                        *)
(***************************************************************************)
\* C14 as claimed: no leg with odds_decimal <= 1.01 is part of a parlay
\* returned by the exhaustive search or by the greedy builder.
C14_NoDegenerateLeg ==
    \A p \in Returned_Parlays :
        \A n \in 1..Len(p.legs) : RGt(p.legs[n].odds_decimal, Rat(101, 100))

(***************************************************************************)
(* The ladder transform.                                                   *)
(***************************************************************************)
\* the rows of the pool with the leg's player and market and a higher line
HigherLines(leg) ==
    { r \in Range(pool) :
        /\ r.player_name = leg.player_name
        /\ r.market_key = leg.market_key
        /\ r.prop_line > leg.prop_line }

Reported == Returns("run_parlay_generator") \/ Returns("save_parlays_markdown")

\* the report has a section of the kind
Has(kind) == \E n \in 1..Len(result.sections) : result.sections[n].kind = kind

\* the pick of the section of the kind: None, or <<parlay>>
PickOf(kind) ==
    LET n == CHOOSE m \in 1..Len(result.sections) : result.sections[m].kind = kind
    IN  result.sections[n].pick

\* the 5-leg parlays handed to the reporter
FiveLeg == { p \in Range(result.parlays) : p.num_legs = 5 }

\* the substituted legs of a parlay, equal ones counted once
Substituted(p) == { find_next_higher_leg(pool, p.legs[n]) : n \in 1..Len(p.legs) }

\* C16 as claimed: for each 5-leg parlay the reporter shows (at most three),
\* the report holds its ladder variant if and only if the substituted legs,
\* equal ones counted once, are as many as the legs of the parlay; a leg
\* without higher line is kept.
C16_LadderIffSameCount ==
    (Reported /\ Cardinality(FiveLeg) <= 3) =>
        \A p \in FiveLeg :
            (Cardinality(Substituted(p)) = Len(p.legs))
                <=> \E n \in 1..Len(result.sections) :
                        /\ result.sections[n].kind = "ladder"
                        /\ Range(result.sections[n].pick[1].legs) = Substituted(p)
                        /\ result.sections[n].pick[1].num_legs = p.num_legs

\* the 2-leg parlays handed to the reporter
TwoLeg == { p \in Range(result.parlays) : p.num_legs = 2 }
TwoLeg10 == { p \in TwoLeg : RGt(p.probability, Rat(10, 100)) }
TwoLeg20 == { p \in TwoLeg : RGe(p.probability, Rat(20, 100)) }

\* the section of the kind shows a parlay of greatest payout of the set, and
\* shows none exactly when the set is empty
BestPayoutOf(kind, cands) ==
    /\ Has(kind)
    /\ (PickOf(kind) = None) <=> (cands = {})
    /\ PickOf(kind) # None =>
           /\ PickOf(kind)[1] \in cands
           /\ \A p \in cands : RGe(PickOf(kind)[1].payout, p.payout)

\* C17 as claimed: the three 2-leg picks of the report are a parlay of
\* greatest payout among the 2-leg parlays, among those with probability
\* > 0.10 and among those with probability >= 0.20; a pick is absent exactly
\* when its candidate set is empty.
C17_TwoLegPicks ==
    Reported =>
        /\ BestPayoutOf("best_2leg", TwoLeg)
        /\ BestPayoutOf("best_2leg_10", TwoLeg10)
        /\ BestPayoutOf("best_2leg_20", TwoLeg20)

\* the parlays handed to the reporter that pass the promotional rule
Promotional == { p \in Range(result.parlays) : is_valid_no_sweat_combo(p.legs) }

PromoEV(p) == expected_value_no_sweat(p, RInt(100), Rat(7, 10))

\* C18 as claimed: the promotional pick of the report passes the promotional
\* rule and no parlay passing the rule has a greater expected value (stake
\* 100, conversion 0.7); there is no pick exactly when no parlay passes.
C18_PromotionalPick ==
    Reported =>
        /\ Has("no_sweat") <=> (Promotional # {})
        /\ Has("no_sweat") =>
               /\ PickOf("no_sweat")[1] \in Promotional
               /\ \A p \in Promotional :
                      RGe(PromoEV(PickOf("no_sweat")[1]), PromoEV(p))

\* C19 as claimed: the reporter completes without raising for every parlay
\* list, and a category without candidate is shown empty or left out.
C19_ReporterCompletes ==
    Reported =>
        /\ result.raised = ""
        /\ TwoLeg = {} => (Has("best_2leg") /\ PickOf("best_2leg") = None)
        /\ TwoLeg10 = {} => (Has("best_2leg_10") /\ PickOf("best_2leg_10") = None)
        /\ TwoLeg20 = {} => (Has("best_2leg_20") /\ PickOf("best_2leg_20") = None)
        /\ FiveLeg = {} => ~ Has("top_5leg")
        /\ Promotional = {} => ~ Has("no_sweat")

(***************************************************************************)
(* American odds.                                                          *)
(***************************************************************************)
\* the magnitude (d - 1) * 100 for d >= 2.0 and 100 / (d - 1) below
Magnitude(d) ==
    IF RGe(d, RInt(2))
    THEN RMul(RSub(d, RInt(1)), RInt(100))
    ELSE RDiv(RInt(100), RSub(d, RInt(1)))

SignText(d) == IF RGe(d, RInt(2)) THEN "+" ELSE "-"

Converts(d) == Returns("decimal_to_american_odds") /\ call.decimal_odds = d

Constructed == call.fn = "__init__" /\ pc \in {"ready", "done"}

SizeGathered == pc = "gen" /\ futures = {} /\ k < call.max_legs

\* the greatest probability among the parlays surviving at size k is below
\* 2 * min_prob
BestProbabilityLow ==
    /\ parlays # <<>>
    /\ \A i \in 1..Len(parlays) :
           RLt(parlays[i].probability, RMul(RInt(2), call.min_prob))

\* C22 as claimed: when size k is finished and k < max_legs, size k + 1 is
\* not attempted if and only if the greatest probability among the parlays
\* surviving at size k is below 2 * min_prob.
C22_EscalationStopRule ==
    [][SizeGathered => ((pc' = "done") <=> BestProbabilityLow)]_vars

(***************************************************************************)
(* The length of the assembled parlays.                                    *)
(***************************************************************************)
\* the assembly as claimed: a parlay is extended until it has max_legs legs
\* or no row is available, and emitted when it has at least min_legs legs
RECURSIVE ExtendedToMaxLegs(_, _, _, _, _, _, _)
ExtendedToMaxLegs(df, rows, min_legs, max_legs, todo, used, out) ==
    LET available == SelectSeq(rows, LAMBDA i : i \notin used)
    IN  IF todo <= 0 \/ available = <<>> THEN out
        ELSE LET first == available[1]
                 parlay == ExtendLoop(df, rows, max_legs - 1,
                                      used \cup {first}, <<first>>)
             IN  ExtendedToMaxLegs(df, rows, min_legs, max_legs, todo - 1,
                                   used \cup Range(parlay),
                                   IF Len(parlay) >= min_legs
                                   THEN Append(out, GreedyRecord(LegsAt(df, parlay)))
                                   ELSE out)

\* the assembled parlays of the output
AssembledPart == SubSeq(result, GuaranteedPairs + 1, Len(result))

\* C23 as claimed: for min_legs <= max_legs, the assembled parlays of
\* greedy_parlay_builder are those of an assembly that extends each parlay
\* until it has max_legs legs or no unused, non-conflicting, odds-eligible
\* row remains, and emits it exactly when it has at least min_legs legs; each
\* has between min_legs and max_legs legs.
C23_ExtendedToMaxLegs ==
    (Returns("greedy_parlay_builder") /\ call.min_legs <= call.max_legs) =>
        /\ AssembledPart =
               ExtendedToMaxLegs(pool, OddsFiltered(pool), call.min_legs,
                                 call.max_legs, call.top_n, {}, <<>>)
        /\ \A n \in 1..Len(AssembledPart) :
               /\ AssembledPart[n].num_legs >= call.min_legs
               /\ AssembledPart[n].num_legs <= call.max_legs

(***************************************************************************)
(* The payout floor of the guaranteed pair in a full run.                  *)
(***************************************************************************)
\* the parlays of the final list that the iterative assembly did not build:
\* the guaranteed pair of the greedy builder and the pair of the fallback scan
GuaranteedInRun == Range(result.parlays) \ Range(Assembled(pool, 2, 5, 30))

\* C24 as claimed: in a run of run_parlay_generator every guaranteed 2-leg
\* pair in the final list, the one of the fallback scan included, has payout
\* >= 3.0; none is added when no valid pair reaches that payout.
C24_PayoutFloorInRun ==
    Returns("run_parlay_generator") =>
        \A p \in GuaranteedInRun : p.num_legs = 2 /\ RGe(p.payout, RInt(3))

(***************************************************************************)
(* The shape of the list generate_parlays returns.                         *)
(***************************************************************************)
\* the accumulated list is its per-size parts, put together size by size
RECURSIVE ConcatBySize(_, _)
ConcatBySize(lo, hi) ==
    IF lo > hi THEN <<>>
    ELSE Contribution(lo) \o ConcatBySize(lo + 1, hi)

\* C25: the list of generate_parlays is the concatenation, in ascending leg
\* count, of the per-size top lists of the attempted sizes: num_legs never
\* decreases along the list, each size contributes at most top_n parlays,
\* scores never increase within a size, and a parlay of a larger size never
\* moves ahead of one of a smaller size, whatever their scores.
C25_ConcatenationBySize ==
    call.fn = "generate_parlays" =>
        /\ best_parlays = ConcatBySize(call.min_legs, call.max_legs)
        /\ \A i \in 1..(Len(best_parlays) - 1) :
              best_parlays[i].num_legs <= best_parlays[i + 1].num_legs
        /\ \A p \in Range(best_parlays) : p.num_legs \in FinishedSizes
        /\ \A size \in FinishedSizes :
              LET contrib == Contribution(size)
              IN  /\ Len(contrib) <= call.top_n
                  /\ \A i \in 1..(Len(contrib) - 1) :
                        RGe(Score(contrib[i]), Score(contrib[i + 1]))
        /\ pc = "done" => result = best_parlays

\* generate_parlays returned a list of two sizes in which a parlay of the
\* larger size has a higher score than one of the smaller size before it,
\* and a size held more candidates than top_n
C25_Witness ==
    /\ Returns("generate_parlays")
    /\ \E i, j \in 1..Len(result) :
          /\ i < j
          /\ result[i].num_legs < result[j].num_legs
          /\ RLt(Score(result[i]), Score(result[j]))
    /\ \E size \in FinishedSizes :
          /\ Len(Contribution(size)) = call.top_n
          /\ Cardinality(Candidates(size)) > call.top_n

(***************************************************************************)
(* The accumulated list while a size is being scored.                      *)
(***************************************************************************)
IsPrefix(s, t) == Len(s) <= Len(t) /\ s = SubSeq(t, 1, Len(s))

\* C26: during generate_parlays the accumulated list is extended with the
\* parlays of size k only once every submitted combination of size k has
\* been gathered; it holds only parlays of completed sizes, and the entries
\* recorded for smaller sizes are neither changed nor removed while a larger
\* size is being scored.
C26_ExtendedAfterGathering ==
    [][ /\ (pc = "gen" /\ pc' = "gen" /\ k' = k) => best_parlays' = best_parlays
        /\ (pc = "gen" /\ best_parlays' # best_parlays) =>
              /\ futures = {}
              /\ IsPrefix(best_parlays, best_parlays')
              /\ \A i \in (Len(best_parlays) + 1)..Len(best_parlays') :
                    best_parlays'[i].num_legs = k
        /\ pc = "gen" => IsPrefix(best_parlays, best_parlays')
        /\ pc' = "gen" => \A p \in Range(best_parlays') : p.num_legs < k'
      ]_vars

\* a larger size is being scored, some of its combinations gathered and some
\* not, while the list holds the parlays of a smaller size
C26_Witness ==
    /\ pc = "gen"
    /\ call.fn = "generate_parlays"
    /\ k > call.min_legs
    /\ best_parlays # <<>>
    /\ futures # {}

(***************************************************************************)
(* The odds of the legs the greedy builder uses.                           *)
(***************************************************************************)
\* the American odds equivalent to decimal odds d > 1
AmericanValue(d) ==
    IF RLt(d, RInt(2)) THEN RDiv(RInt(-100), RSub(d, RInt(1)))
    ELSE RMul(RInt(100), RSub(d, RInt(1)))

\* C27: every leg of every parlay greedy_parlay_builder returns, guaranteed
\* pair and assembled parlays alike, has odds_decimal > 1.01 and American
\* odds of -500 or more (decimal odds of 1.2 or more).
C27_GreedyLegsWithinCap ==
    Returns("greedy_parlay_builder") =>
        \A n \in 1..Len(result) :
            \A leg \in Range(result[n].legs) :
                /\ RGt(leg.odds_decimal, Rat(101, 100))
                /\ RGe(AmericanValue(leg.odds_decimal), RInt(-500))
                /\ RGe(leg.odds_decimal, Rat(12, 10))

\* the builder returned a guaranteed pair and an assembled parlay from a pool
\* that holds a row of odds_decimal > 1.01 beyond the cap and a row at or
\* below 1.01
C27_Witness ==
    /\ Returns("greedy_parlay_builder")
    /\ GuaranteedPairs = 1
    /\ Len(result) >= 2
    /\ \E i, j \in 1..Len(pool) :
          /\ RGt(pool[i].odds_decimal, Rat(101, 100))
          /\ RLt(pool[i].odds_decimal, Rat(12, 10))
          /\ RLe(pool[j].odds_decimal, Rat(101, 100))

(***************************************************************************)
(* The scorer on legs of the input contract.                               *)
(***************************************************************************)
ContractFields ==
    {"player_name", "market_key", "prop_line", "odds_decimal", "implied_prob",
     "edge"}

\* C28 as claimed: for every non-empty parlay whose legs carry the fields of
\* the input contract, and for every mode, parlay_score returns a number and
\* does not fail.
C28_ScorerTotalOnContract ==
    (/\ Returns("parlay_score")
     /\ Len(call.parlay) > 0
     /\ \A n \in 1..Len(call.parlay) :
           ContractFields \subseteq DOMAIN call.parlay[n])
    => result.raised = ""

(***************************************************************************)
(* One call of _make_request.                                              *)
(***************************************************************************)
Requested(outcome) ==
    pc = "ready" /\ call.fn = "_make_request" /\ result.outcome = outcome

\* C29 as claimed: one call of _make_request makes at most len(keys)
\* attempts, and when it ends with "All API keys exhausted" every key of the
\* key file has been tried in that call, whatever the source of the initial
\* api_key and whatever rotation earlier calls left behind.
C29_ExhaustedTriedEveryKey ==
    /\ call.fn = "_make_request" => Len(attempts) <= Len(key_rotator.keys)
    /\ Requested("exhausted") => Range(key_rotator.keys) \subseteq Range(attempts)

(***************************************************************************)
(* Ladders of parlays without two legs of one player and market.           *)
(***************************************************************************)
DistinctPlayerMarketPairs(legs) ==
    \A i, j \in 1..Len(legs) :
        i # j => ~ (/\ legs[i].player_name = legs[j].player_name
                    /\ legs[i].market_key = legs[j].market_key)

\* the report holds the ladder variant of the parlay
LadderReported(p) ==
    \E n \in 1..Len(result.sections) :
        /\ result.sections[n].kind = "ladder"
        /\ Range(result.sections[n].pick[1].legs) = Substituted(p)

\* C30 as claimed: for a 5-leg parlay whose legs have pairwise distinct
\* (player_name, market_key) pairs the substituted ladder legs are pairwise
\* distinct, so their count is the count of the legs, and the report holds
\* the ladder of every such parlay it shows.
C30_LadderNeverCollapses ==
    (Reported /\ Cardinality(FiveLeg) <= 3) =>
        \A p \in FiveLeg :
            DistinctPlayerMarketPairs(p.legs) =>
                /\ Cardinality(Substituted(p)) = Len(p.legs)
                /\ LadderReported(p)

====
